---- MODULE Spec2Model ----
(***************************************************************************)
(* Model of dbfread/memo.py: the memo-file readers (Visual FoxPro, dBase   *)
(* III, dBase IV and the fake reader), their open/close lifecycle and the  *)
(* choice of the reader class in open_memofile.                            *)
(*                                                                         *)
(* A file is a sequence of bytes.  Byte values are drawn from 0..127 so    *)
(* that every decoded unsigned 32-bit field stays below 2^31.              *)
(* The byte strings are those of Python 2, where '' and the result of     *)
(* file.read() are both str.                                               *)
(***************************************************************************)
EXTENDS Integers, Sequences, FiniteSets, TLC

VARIABLES
    exists,      \* a companion file was found next to the table (find_memofile)
    filename,    \* its name, a sequence of characters
    dbversion,   \* the version byte of the table's header
    disk,        \* the bytes of the companion file (never written)
    pc,          \* "start", "ready" (constructed), "failed" (constructor raised), "closed"
    reader,      \* the class constructed: "none", "VFP", "DB3", "DB4", "Fake"
    handles,     \* number of open file handles
    pos,         \* cursor of self.file
    header,      \* self.header of VFPMemoFile
    outcome,     \* what the last __getitem__ did
    lastIndex,   \* the index given to the last __getitem__
    first,       \* for every index, the outcome of the first __getitem__ with it
    repeat,      \* the last __getitem__ was given an index given before
    touched,     \* some file operation (open, seek, read, close) was performed
    propagated   \* how the with block was left: "no" exception, one "propagated", one "suppressed"

vars == <<exists, filename, dbversion, disk, pc, reader, handles, pos, header,
          outcome, lastIndex, first, repeat, touched, propagated>>

(***************************************************************************)
(* Bounds of the model.                                                    *)
(***************************************************************************)
MaxIndex == 2

\* The indices given to __getitem__: a negative one, zero, positive ones.
Indices == (0 - 1)..MaxIndex

(***************************************************************************)
(* Bytes and sequences.                                                    *)
(***************************************************************************)
CR == 13
LF == 10
DB3_block_size == 512
DB4_block_size == 512
DBASE3_VERSION == 131

Min(a, b) == IF a <= b THEN a ELSE b

Rep(b, n) == [i \in 1..n |-> b]

Zeros(n) == Rep(0, n)

\* Python's s[a:b] for 0 <= a.
Slice(s, a, b) == SubSeq(s, a + 1, Min(b, Len(s)))

\* struct formats '>H', '>L' and '<L'
U16BE(b) == b[1] * 256 + b[2]

U32BE(b) == b[1] * 16777216 + b[2] * 65536 + b[3] * 256 + b[4]

U32LE(b) == b[4] * 16777216 + b[3] * 65536 + b[2] * 256 + b[1]

(***************************************************************************)
(* The file object: read and seek of a file opened 'rb'.                   *)
(***************************************************************************)
\* file.read(n) at cursor p: the bytes available, at most n of them.
FileRead(f, p, n) == IF p >= Len(f) THEN <<>> ELSE Slice(f, p, p + n)

\* file.seek(off): an absolute position; a negative one is refused.
SeekRelative(p, off) == p + off

SeekOk(off) == off >= 0

Seek(p, off) == off

(***************************************************************************)
(* StructParser.read(file): reads struct.size bytes and unpacks them; fewer *)
(* bytes than the size cannot be unpacked.                                 *)
(***************************************************************************)
StructRead(f, p, size) ==
    LET data == FileRead(f, p, size)
    IN  [ok |-> Len(data) = size, data |-> data, pos |-> p + Len(data)]

\* VFPFileHeader, '>LHH504s'
VFPFileHeaderSize == 4 + 2 + 2 + 504

VFPFileHeader(b) ==
    [nextblock |-> U32BE(SubSeq(b, 1, 4)),
     reserved1 |-> U16BE(SubSeq(b, 5, 6)),
     blocksize |-> U16BE(SubSeq(b, 7, 8))]

NoHeader == [nextblock |-> -1, reserved1 |-> -1, blocksize |-> -1]

\* VFPMemoHeader, '>LL'
MemoHeaderSize == 4 + 4

VFPMemoHeader(b) ==
    [type |-> U32BE(SubSeq(b, 1, 4)), length |-> U32BE(SubSeq(b, 5, 8))]

\* DB4MemoHeader, '<LL'
DB4MemoHeader(b) ==
    [reserved |-> U32LE(SubSeq(b, 1, 4)), length |-> U32LE(SubSeq(b, 5, 8))]

(***************************************************************************)
(* The outcome of a __getitem__: what it returned or raised ("tag", with   *)
(* the bytes in "data"), the arguments of the seeks it made and the number *)
(* of reads it made.  Tags: "text" (a str), "binary" (a BinaryMemo),       *)
(* "none" (None), "IndexError", "IOError" (EOF reached while reading       *)
(* memo), "StructError" (the header could not be unpacked), "SeekError"    *)
(* (the seek was refused).                                                 *)
(***************************************************************************)
NoData == <<>>

Outcome(tag, data, seeks, reads) ==
    [tag |-> tag, data |-> data, seeks |-> seeks, reads |-> reads]

NoOutcome == Outcome("unset", NoData, <<>>, 0)

\* An outcome and the cursor the call leaves.
Done(tag, data, seeks, reads, p) ==
    [out |-> Outcome(tag, data, seeks, reads), pos |-> p]

(***************************************************************************)
(* FakeMemoFile.__getitem__                                                *)
(***************************************************************************)
FakeGetItemChecked(p, index) ==
    IF index <= 0 THEN Done("IndexError", NoData, <<>>, 0, p)
    ELSE Done("none", NoData, <<>>, 0, p)

FakeGetItem(p, index) == Done("none", NoData, <<>>, 0, p)

(***************************************************************************)
(* VFPMemoFile.__getitem__                                                 *)
(***************************************************************************)
VFPIndexRejectedNegative(index) == index < 0

VFPIndexRejected(index) == index <= 0

VFPOffsetFixed(index, hdr) == index * 512

VFPOffset(index, hdr) == index * hdr.blocksize

VFPTruncatedNever(data, length) == FALSE

VFPTruncated(data, length) == Len(data) # length

VFPIsTextNonZero(type) == type # 0

VFPIsText(type) == type = 1

VFPGetItem(f, p, index, hdr) ==
    IF VFPIndexRejected(index) THEN Done("IndexError", NoData, <<>>, 0, p)
    ELSE
      LET off == VFPOffset(index, hdr)
          p1  == Seek(p, off)
          mh  == StructRead(f, p1, MemoHeaderSize)
      IN  IF ~SeekOk(off) THEN Done("SeekError", NoData, <<off>>, 0, p)
          ELSE IF ~mh.ok THEN Done("StructError", NoData, <<off>>, 1, mh.pos)
          ELSE
            LET memo_header == VFPMemoHeader(mh.data)
                data == FileRead(f, mh.pos, memo_header.length)
                p2   == mh.pos + Len(data)
            IN  IF VFPTruncated(data, memo_header.length)
                THEN Done("IOError", NoData, <<off>>, 2, p2)
                ELSE IF VFPIsText(memo_header.type)
                THEN Done("text", data, <<off>>, 2, p2)
                ELSE Done("binary", data, <<off>>, 2, p2)

(***************************************************************************)
(* DB3MemoFile.__getitem__                                                 *)
(***************************************************************************)
\* s.find(pat): the lowest 0-based index where pat occurs in s, or -1.
Find(s, pat) ==
    LET at == {i \in 0..(Len(s) - Len(pat)) :
                  \A k \in 1..Len(pat) : s[i + k] = pat[k]}
    IN  IF at = {} THEN 0 - 1
        ELSE CHOOSE i \in at : \A j \in at : i <= j

\* The text the loop searches for the end of the memo.
DB3SearchedLastChunk(data, newdata) == newdata

DB3Searched(data, newdata) == data

\* One pass of the while loop and the passes after it.
RECURSIVE DB3Loop(_, _, _, _, _)
DB3Loop(f, p, data, off, reads) ==
    LET newdata == FileRead(f, p, DB3_block_size)
        p1      == p + Len(newdata)
        data1   == data \o newdata
        eom     == Find(DB3Searched(data1, newdata), <<CR, LF>>)
    IN  IF newdata = <<>> THEN Done("text", data, <<off>>, reads + 1, p1)
        ELSE IF eom = 0 - 1 THEN DB3Loop(f, p1, data1, off, reads + 1)
        ELSE Done("text", Slice(data1, 0, eom), <<off>>, reads + 1, p1)

DB3GetItem(f, p, index) ==
    LET off == index * DB3_block_size
    IN  IF ~SeekOk(off) THEN Done("SeekError", NoData, <<off>>, 0, p)
        ELSE DB3Loop(f, Seek(p, off), <<>>, off, 0)

(***************************************************************************)
(* DB4MemoFile.__getitem__                                                 *)
(***************************************************************************)
DB4GetItem(f, p, index) ==
    LET off == index * DB4_block_size
        p1  == Seek(p, off)
        mh  == StructRead(f, p1, MemoHeaderSize)
    IN  IF ~SeekOk(off) THEN Done("SeekError", NoData, <<off>>, 0, p)
        ELSE IF ~mh.ok THEN Done("StructError", NoData, <<off>>, 1, mh.pos)
        ELSE
          LET memo_header == DB4MemoHeader(mh.data)
              data == FileRead(f, mh.pos, memo_header.length)
          IN  Done("text", data, <<off>>, 2, mh.pos + Len(data))

GetItem(cls, f, p, index, hdr) ==
    CASE cls = "VFP"  -> VFPGetItem(f, p, index, hdr)
      [] cls = "DB3"  -> DB3GetItem(f, p, index)
      [] cls = "DB4"  -> DB4GetItem(f, p, index)
      [] cls = "Fake" -> FakeGetItem(p, index)

(***************************************************************************)
(* open_memofile: the reader class for a file name and a version byte.     *)
(***************************************************************************)
\* str.lower() on one character of the names used here.
LowerChar(c) ==
    CASE c = "F" -> "f"
      [] c = "P" -> "p"
      [] c = "T" -> "t"
      [] c = "D" -> "d"
      [] c = "B" -> "b"
      [] c = "A" -> "a"
      [] OTHER   -> c

Lower(s) == [i \in 1..Len(s) |-> LowerChar(s[i])]

EndsWith(s, suffix) ==
    /\ Len(s) >= Len(suffix)
    /\ SubSeq(s, Len(s) - Len(suffix) + 1, Len(s)) = suffix

IsFptExact(name) == EndsWith(name, <<".", "f", "p", "t">>)

IsFpt(name) == EndsWith(Lower(name), <<".", "f", "p", "t">>)

open_memofile(name, version) ==
    IF IsFpt(name) THEN "VFP"
    ELSE IF version = DBASE3_VERSION THEN "DB3"
    ELSE "DB4"

(***************************************************************************)
(* MemoFile.__init__: _open, then _init.                                   *)
(***************************************************************************)
\* _open opens the file, except in FakeMemoFile where it does nothing.
OpensAlways(cls) == TRUE

Opens(cls) == cls # "Fake"

\* _init: VFPMemoFile reads the file header; the others do nothing.
ReadsHeader(cls) == cls = "VFP"

Construct(cls) ==
    LET fh == StructRead(disk, 0, VFPFileHeaderSize)
    IN  /\ reader' = cls
        /\ handles' = IF Opens(cls) THEN handles + 1 ELSE handles
        /\ touched' = (touched \/ Opens(cls))
        /\ IF ReadsHeader(cls)
           THEN /\ pos' = fh.pos
                /\ IF fh.ok
                   THEN pc' = "ready" /\ header' = VFPFileHeader(fh.data)
                   ELSE pc' = "failed" /\ header' = header
           ELSE pc' = "ready" /\ pos' = 0 /\ header' = header
        /\ UNCHANGED <<exists, filename, dbversion, disk, outcome, lastIndex,
                       first, repeat, propagated>>

\* The table found its memo file and opens it.
OpenMemofile ==
    /\ pc = "start"
    /\ exists
    /\ Construct(open_memofile(filename, dbversion))

\* find_memofile returned None: the table uses a FakeMemoFile.
OpenFake ==
    /\ pc = "start"
    /\ ~exists
    /\ Construct("Fake")

(***************************************************************************)
(* memofile[index] on a constructed reader that was not closed.            *)
(***************************************************************************)
Get(index) ==
    /\ pc = "ready"
    /\ LET r == GetItem(reader, disk, pos, index, header)
       IN  /\ outcome' = r.out
           /\ pos' = r.pos
           /\ lastIndex' = <<index>>
           /\ repeat' = (first[index] # NoOutcome)
           /\ first' = IF first[index] = NoOutcome
                       THEN [first EXCEPT ![index] = r.out]
                       ELSE first
           /\ touched' = (touched \/ r.out.seeks # <<>> \/ r.out.reads > 0)
    /\ UNCHANGED <<exists, filename, dbversion, disk, pc, reader, handles,
                   header, propagated>>

(***************************************************************************)
(* __exit__: _close, and the exception (if any) is not suppressed.         *)
(***************************************************************************)
\* _close closes the file, except in FakeMemoFile where it does nothing.
Closes(cls) == cls # "Fake"

\* What __exit__ returns: a true value would suppress the exception.
ExitReturns == FALSE

Exit(raised) ==
    /\ pc = "ready"
    /\ pc' = "closed"
    /\ handles' = IF Closes(reader) THEN handles - 1 ELSE handles
    /\ touched' = (touched \/ Closes(reader))
    /\ propagated' = IF ~raised THEN "no"
                     ELSE IF ExitReturns THEN "suppressed" ELSE "propagated"
    /\ UNCHANGED <<exists, filename, dbversion, disk, reader, pos, header,
                   outcome, lastIndex, first, repeat>>

ExitNormal == Exit(FALSE)

ExitException == Exit(TRUE)

\* The constructor raised: nothing closes the file it opened.  The file
\* object is closed only if and when the interpreter reclaims it.
Reclaim ==
    /\ pc = "failed"
    /\ handles > 0
    /\ handles' = handles - 1
    /\ UNCHANGED <<exists, filename, dbversion, disk, pc, reader, pos, header,
                   outcome, lastIndex, first, repeat, touched, propagated>>

(***************************************************************************)
(* The files, names and version bytes the model opens.                     *)
(***************************************************************************)
Bytes16(v) == <<v \div 256, v % 256>>

Bytes32(v) == <<v \div 16777216, (v \div 65536) % 256, (v \div 256) % 256, v % 256>>

Reverse(s) == [i \in 1..Len(s) |-> s[Len(s) + 1 - i]]

\* n payload bytes "abc..."
Payload(n) == [i \in 1..n |-> 96 + i]

PadTo(s, n) == IF Len(s) >= n THEN s ELSE s \o Zeros(n - Len(s))

\* A FoxPro file: the header with its block size, then at block 1 a record
\* declaring type and length, followed by avail bytes.
VFPFile(bs, type, length, avail) ==
    PadTo(Bytes32(2) \o Bytes16(0) \o Bytes16(bs) \o Zeros(504), bs)
       \o Bytes32(type) \o Bytes32(length) \o Payload(avail)

VFPRecords ==
    ({0, 1, 2, 7} \X {3} \X {3, 1}) \cup {<<1, 0, 0>>, <<2, 2, 4>>}

VFPFiles == {VFPFile(bs, r[1], r[2], r[3]) : bs \in {512, 520}, r \in VFPRecords}

\* A dBase IV file: at block 1 the marker, the length, then avail bytes.
DB4File(length, avail) ==
    Zeros(512) \o <<127, 127, 8, 8>> \o Reverse(Bytes32(length)) \o Payload(avail)

DB4Files ==
    {DB4File(la[1], la[2]) : la \in {<<3, 3>>, <<3, 1>>, <<0, 0>>, <<2, 4>>, <<10, 4>>}}

\* dBase III files: block 0, then the text of block 1.
DB3Texts ==
    { <<97, 98, CR, LF, 99>>,
      <<97, 98>>,
      <<97, CR, 98, LF>>,
      <<CR, LF>>,
      <<97, 26, 98, CR, LF, 99, CR, LF>>,
      Rep(97, 511) \o <<CR, LF, 98>>,
      Rep(97, 511) \o <<CR>>,
      Rep(97, 512) \o <<98, CR, LF, 99>>,
      Rep(97, 514) }

DB3Files == {Rep(32, 512) \o t : t \in DB3Texts} \cup {Rep(32, 511) \o <<CR, LF, 97, 98>>}

\* Files too short to hold a FoxPro header.
ShortFiles == {<<>>, <<1, 2, 3>>}

Files == VFPFiles \cup DB4Files \cup DB3Files \cup ShortFiles

Filenames ==
    { <<"a", ".", "f", "p", "t">>,
      <<"A", ".", "F", "p", "T">>,
      <<"a", ".", "d", "b", "t">>,
      <<"A", ".", "D", "B", "T">>,
      <<"f", "p", "t">> }

Versions == {3, DBASE3_VERSION, 139}

NoFilename == <<>>

Init ==
    /\ exists \in BOOLEAN
    /\ IF exists
       THEN filename \in Filenames /\ disk \in Files /\ dbversion \in Versions
       ELSE filename = NoFilename /\ disk = <<>> /\ dbversion \in Versions
    /\ pc = "start"
    /\ reader = "none"
    /\ handles = 0
    /\ pos = 0
    /\ header = NoHeader
    /\ outcome = NoOutcome
    /\ lastIndex = <<>>
    /\ first = [i \in Indices |-> NoOutcome]
    /\ repeat = FALSE
    /\ touched = FALSE
    /\ propagated = "no"

Next ==
    \/ OpenMemofile
    \/ OpenFake
    \/ \E index \in Indices : Get(index)
    \/ ExitNormal
    \/ ExitException
    \/ Reclaim

Spec == Init /\ [][Next]_vars

(***************************************************************************)
(* Properties.                                                             *)
(***************************************************************************)
Called == lastIndex # <<>>

Returned == outcome.tag \in {"text", "binary"}

\* The block size a FoxPro file declares: bytes 6 and 7, big-endian.
DeclaredBlockSize == disk[7] * 256 + disk[8]

\* The record header at byte offset off of the file: two unsigned 32-bit
\* fields, the most significant byte first (FoxPro) or last (dBase IV).
HasRecordHeader(off) == off + 8 <= Len(disk)

BigEndianAt(k) ==
    disk[k + 1] * 16777216 + disk[k + 2] * 65536 + disk[k + 3] * 256 + disk[k + 4]

LittleEndianAt(k) ==
    disk[k + 4] * 16777216 + disk[k + 3] * 65536 + disk[k + 2] * 256 + disk[k + 1]

BytesAfterHeader(off) == Len(disk) - (off + 8)

\* C1: FoxPro reader, index > 0 and a record header at the block: get returns
\* a payload of exactly the declared length, or raises the truncation error,
\* and it raises it exactly when fewer than length bytes follow the header;
\* it never returns a shorter payload.
C1_ExactLengthOrTruncation ==
    (reader = "VFP" /\ Called /\ lastIndex[1] > 0) =>
        LET off == lastIndex[1] * DeclaredBlockSize
        IN  IF HasRecordHeader(off)
            THEN LET length == BigEndianAt(off + 4)
                 IN  /\ outcome.tag \in {"text", "binary", "IOError"}
                     /\ Returned => Len(outcome.data) = length
                     /\ outcome.tag = "IOError" <=> BytesAfterHeader(off) < length
            ELSE ~Returned

C1_Witness ==
    /\ reader = "VFP" /\ Called /\ lastIndex[1] > 0
    /\ HasRecordHeader(lastIndex[1] * DeclaredBlockSize)
    /\ BigEndianAt(lastIndex[1] * DeclaredBlockSize + 4) = 3
    /\ BytesAfterHeader(lastIndex[1] * DeclaredBlockSize) = 1
    /\ outcome.tag = "IOError"

\* C2: dBase IV reader: the content get returns always has exactly the length
\* the record header declares; a short read is never returned.
C2_DB4ExactLength ==
    (reader = "DB4" /\ Called /\ Returned) =>
        LET off == lastIndex[1] * 512
        IN  /\ HasRecordHeader(off)
            /\ Len(outcome.data) = LittleEndianAt(off + 4)

\* C3: dBase III reader, index >= 0: get returns the bytes from index*512 up
\* to (excluding) the first 0x0D 0x0A at or after that offset, wherever it
\* lies, and every byte up to the end of the file when there is none; it
\* raises nothing.
TerminatorsFrom(off) ==
    {k \in off..(Len(disk) - 2) : disk[k + 1] = 13 /\ disk[k + 2] = 10}

C3_DB3UpToTerminator ==
    (reader = "DB3" /\ Called /\ lastIndex[1] >= 0) =>
        LET off   == lastIndex[1] * 512
            terms == TerminatorsFrom(off)
            stop  == IF terms = {} THEN Len(disk)
                     ELSE CHOOSE k \in terms : \A j \in terms : k <= j
        IN  /\ outcome.tag = "text"
            /\ outcome.seeks = <<off>>
            /\ outcome.data = [i \in 1..(IF stop > off THEN stop - off ELSE 0) |-> disk[off + i]]

\* The terminator straddles the boundary of the first and second chunk.
C3_Witness ==
    /\ reader = "DB3" /\ Called /\ lastIndex[1] >= 0
    /\ LET off == lastIndex[1] * 512
       IN  /\ off + 513 <= Len(disk)
           /\ disk[off + 512] = 13 /\ disk[off + 513] = 10
           /\ Len(outcome.data) = 511

\* C4: FoxPro reader: get raises the index error for every index <= 0,
\* whatever the file holds, before any file operation.
C4_RejectsNonPositive ==
    (reader = "VFP" /\ Called /\ lastIndex[1] <= 0) =>
        /\ outcome.tag = "IndexError"
        /\ outcome.seeks = <<>> /\ outcome.reads = 0

C4_Witness ==
    /\ reader = "VFP" /\ Called /\ lastIndex[1] = 0
    /\ outcome.tag = "IndexError"
    /\ first[0 - 1].tag = "IndexError"

\* C5: FoxPro reader: a get that returns gives text exactly when the record's
\* type is 1 and binary for every other type, and in both cases the payload
\* bytes that follow the record header.
C5_TextIffTypeOne ==
    (reader = "VFP" /\ Called /\ Returned) =>
        LET off == lastIndex[1] * DeclaredBlockSize
        IN  /\ HasRecordHeader(off)
            /\ outcome.tag = "text" <=> BigEndianAt(off) = 1
            /\ outcome.tag = "binary" <=> BigEndianAt(off) # 1
            /\ outcome.data =
                 [i \in 1..BigEndianAt(off + 4) |-> disk[off + 8 + i]]

\* An unrecognized type with a payload.
C5_Witness ==
    /\ reader = "VFP" /\ Called /\ lastIndex[1] > 0
    /\ HasRecordHeader(lastIndex[1] * DeclaredBlockSize)
    /\ BigEndianAt(lastIndex[1] * DeclaredBlockSize) = 7
    /\ outcome.tag = "binary"
    /\ Len(outcome.data) = 3

\* C6: on an open reader every get with an index gives the outcome the first
\* get with that index gave, whatever calls were made in between.
C6_SameIndexSameOutcome ==
    Called => first[lastIndex[1]] = outcome

\* A repeated get that read the file, after gets with other indices that
\* raised and that returned.
C6_Witness ==
    /\ Called /\ repeat /\ Returned /\ Len(outcome.data) > 0
    /\ \E j \in Indices : j # lastIndex[1] /\ first[j].tag \in {"IndexError", "StructError", "IOError", "SeekError"}
    /\ \E j \in Indices : j # lastIndex[1] /\ first[j].tag \in {"text", "binary"}

\* C7: no file handle stays open once the with block was left or the
\* constructor raised; an exception raised in the with block is propagated;
\* between construction and close the reader holds exactly one open handle.
C7_HandleReleased ==
    /\ pc \in {"closed", "failed"} => handles = 0
    /\ (pc = "ready" /\ reader # "Fake") => handles = 1
    /\ propagated # "suppressed"

\* C8: with no companion file the reader is the fake one, nothing fails,
\* every get returns None, for 0 and negative indices too, and no file is
\* opened or touched at any time.
C8_NullReader ==
    (~exists /\ pc # "start") =>
        /\ reader = "Fake"
        /\ pc # "failed"
        /\ handles = 0
        /\ ~touched
        /\ Called => (outcome.tag = "none" /\ outcome.data = <<>>)

C8_Witness ==
    /\ ~exists /\ reader = "Fake" /\ pc = "closed"
    /\ Called /\ lastIndex[1] < 0 /\ outcome.tag = "none"
    /\ first[0].tag = "none" /\ first[1].tag = "none"

\* C9: the class constructed depends on the name and the version byte only:
\* FoxPro when the name ends in ".fpt" in any letter case, otherwise dBase III
\* when the version byte is 0x83, otherwise dBase IV.
EndsInFptAnyCase ==
    LET n == Len(filename)
    IN  /\ n >= 4
        /\ filename[n - 3] = "."
        /\ filename[n - 2] \in {"f", "F"}
        /\ filename[n - 1] \in {"p", "P"}
        /\ filename[n] \in {"t", "T"}

C9_Selection ==
    (exists /\ pc # "start") =>
        reader = IF EndsInFptAnyCase THEN "VFP"
                 ELSE IF dbversion = 131 THEN "DB3"
                 ELSE "DB4"

C9_Witness ==
    /\ exists /\ pc # "start"
    /\ filename = <<"A", ".", "F", "p", "T">>
    /\ dbversion = 131
    /\ reader = "VFP"

\* C10: a get that reads the file has made exactly one seek before, to index
\* times the block size: the one the FoxPro file header declares, which the
\* reader holds unchanged from construction on, and 512 for the two dBase
\* readers.
C10_SeekToBlock ==
    /\ (reader = "VFP" /\ pc \in {"ready", "closed"}) =>
           header.blocksize = DeclaredBlockSize
    /\ (Called /\ outcome.reads > 0) =>
           outcome.seeks =
              << lastIndex[1] * (IF reader = "VFP" THEN DeclaredBlockSize ELSE 512) >>

C10_Witness ==
    /\ reader = "VFP" /\ Called /\ repeat
    /\ DeclaredBlockSize = 520
    /\ outcome.reads = 2
    /\ outcome.seeks = <<520>>

====
